---- MODULE Spec2Model ----
(***************************************************************************)
(* State-machine model of the MemoryGame class of script.js: the card      *)
(* deck, the flip / match engine with its deferred callbacks, the two      *)
(* tickers, pause / resume accounting, scoring and the leaderboard.        *)
(*                                                                         *)
(* Every handler of the class is a function from a session record to a     *)
(* session record (the handler run to completion, JavaScript being         *)
(* single-threaded); an action applies one handler to the current state.   *)
(* The browser's timer table is part of the state: `pending` holds the     *)
(* setTimeout callbacks not yet run, timerInterval / timeLimitInterval     *)
(* tell whether the handle fields refer to a live interval, and            *)
(* leakedTimers / leakedLimits count live intervals whose handle was       *)
(* overwritten.  A timer callback may run at any moment after it was       *)
(* scheduled; Date.now() is the variable `now`, in milliseconds.           *)
(* playedTime is a history variable, the time the current game has been    *)
(* active and not paused since startGame; no handler reads it.             *)
(* stored is the item 'memoryGameLeaderboard' of localStorage; constructed *)
(* tells whether the constructor returned, so that a game object exists.   *)
(* What a handler sends to its collaborators is part of its result and not *)
(* of the state: `emitted` is the sequence of sounds it played, timerText  *)
(* the elapsed time it wrote to the timer display (Null: none written).    *)
(*                                                                         *)
(* Cards are numbered 1..Len(cards) (card.id + 1); symbols are numbers.    *)
(* JavaScript null is Null (0), the value null has in arithmetic and in a  *)
(* truth test.                                                             *)
(***************************************************************************)
EXTENDS Integers, Sequences, FiniteSets, TLC

VARIABLES cards, flippedCards, matchedPairs, moves, startTime, timerInterval,
          gameActive, gamePaused, pauseStartTime, totalPauseTime,
          currentDifficulty, timeLimit, timeLimitInterval, leaderboard,
          pending, leakedTimers, leakedLimits, score, now, playedTime,
          stored, constructed

vars == <<cards, flippedCards, matchedPairs, moves, startTime, timerInterval,
          gameActive, gamePaused, pauseStartTime, totalPauseTime,
          currentDifficulty, timeLimit, timeLimitInterval, leaderboard,
          pending, leakedTimers, leakedLimits, score, now, playedTime,
          stored, constructed>>

(***************************************************************************)
(* Bounds.  The pair counts and time limits of the three difficulties are  *)
(* scaled down from 8/8/18 pairs and 300/240/300 seconds.                  *)
(***************************************************************************)
EasyPairs == 1
MediumPairs == 1
HardPairs == 2
EasyLimit == 2
MediumLimit == 1
HardLimit == 2
\* Date.now() advances in steps of Step ms, up to MaxTime.
Step == 500
MaxTime == 1000
\* caps on counters the program leaves unbounded
MaxMoves == 2
MaxPending == 1
MaxLeaked == 1
MaxOverrun == 1
MaxSaves == 1
\* the caps of the specification with fair countdown ticks
CountdownMoves == 1
CountdownLeaked == 0

\* the caps of the specification of overlapping callbacks
OverlapPending == 2

OverlapMoves == 1

OverlapLeaked == 0

\* the caps of the specification of games that reach the leaderboard
RankMoves == 1

RankLeaked == 0

\* the lowest score of the leaderboard an earlier visit stored
BeatableScore == 104
\* the shuffle is also checked on decks of 1..ShufflePairs pairs
ShufflePairs == 3
\* saveToLeaderboard is called with the scores 0..MaxScore
MaxScore == 4
\* the score of the stored leaderboard entries
TopScore == 9999

Null == 0
\* leaderboard capacity
TopN == 5

Difficulties == {"easy", "medium", "hard"}

Range(n) == [i \in 1..n |-> i]

difficultyConfigs ==
    [easy   |-> [pairs |-> EasyPairs,   timeLimit |-> EasyLimit,
                 symbols |-> Range(EasyPairs)],
     medium |-> [pairs |-> MediumPairs, timeLimit |-> MediumLimit,
                 symbols |-> Range(MediumPairs)],
     hard   |-> [pairs |-> HardPairs,   timeLimit |-> HardLimit,
                 symbols |-> Range(HardPairs)]]

\* the configurations as script.js has them, symbols numbered
sourceConfigs ==
    [easy   |-> [pairs |-> 8,  timeLimit |-> 300, symbols |-> Range(8)],
     medium |-> [pairs |-> 8,  timeLimit |-> 240, symbols |-> Range(8)],
     hard   |-> [pairs |-> 18, timeLimit |-> 300, symbols |-> Range(18)]]

Max(a, b) == IF a >= b THEN a ELSE b
Min(a, b) == IF a <= b THEN a ELSE b

\* The session as one record: the argument and result of every handler.
S == [cards |-> cards, flippedCards |-> flippedCards,
      matchedPairs |-> matchedPairs, moves |-> moves, startTime |-> startTime,
      timerInterval |-> timerInterval, gameActive |-> gameActive,
      gamePaused |-> gamePaused, pauseStartTime |-> pauseStartTime,
      totalPauseTime |-> totalPauseTime,
      currentDifficulty |-> currentDifficulty, timeLimit |-> timeLimit,
      timeLimitInterval |-> timeLimitInterval, leaderboard |-> leaderboard,
      pending |-> pending, leakedTimers |-> leakedTimers,
      leakedLimits |-> leakedLimits, score |-> score, stored |-> stored,
      timerText |-> Null, emitted |-> <<>>, threw |-> FALSE]

Apply(t) ==
    /\ cards' = t.cards
    /\ flippedCards' = t.flippedCards
    /\ matchedPairs' = t.matchedPairs
    /\ moves' = t.moves
    /\ startTime' = t.startTime
    /\ timerInterval' = t.timerInterval
    /\ gameActive' = t.gameActive
    /\ gamePaused' = t.gamePaused
    /\ pauseStartTime' = t.pauseStartTime
    /\ totalPauseTime' = t.totalPauseTime
    /\ currentDifficulty' = t.currentDifficulty
    /\ timeLimit' = t.timeLimit
    /\ timeLimitInterval' = t.timeLimitInterval
    /\ leaderboard' = t.leaderboard
    /\ pending' = t.pending
    /\ leakedTimers' = t.leakedTimers
    /\ leakedLimits' = t.leakedLimits
    /\ score' = t.score
    /\ stored' = t.stored

\* A handler starts with nothing emitted, nothing written to the display and
\* no exception thrown.
Enter(s) == [s EXCEPT !.emitted = <<>>, !.timerText = Null, !.threw = FALSE]

playSound(s, soundName) == [s EXCEPT !.emitted = Append(@, soundName)]

(***************************************************************************)
(* shuffleCards                                                            *)
(***************************************************************************)
\* the loop with each symbol pushed once (line 249 left out)
cardPairsOfOnce(config, n) ==
    [i \in 1..n |-> config.symbols[((i - 1) % Len(config.symbols)) + 1]]

RECURSIVE cardPairsOf(_, _)
\* the loop of lines 246-250: symbol i mod length, twice, for i = 0..n-1
cardPairsOf(config, n) ==
    IF n = 0 THEN <<>>
    ELSE LET sym == config.symbols[((n - 1) % Len(config.symbols)) + 1]
         IN  cardPairsOf(config, n - 1) \o <<sym, sym>>

Swap(q, i, j) == [q EXCEPT ![i] = q[j], ![j] = q[i]]

RECURSIVE FisherYatesBelow(_, _)
\* the loop with j drawn from 0..i-1 (Math.random() * i)
FisherYatesBelow(q, i) ==
    IF i <= 1 THEN {q}
    ELSE UNION {FisherYatesBelow(Swap(q, i, j), i - 1) : j \in 1..(i - 1)}

RECURSIVE FisherYates(_, _)
\* every result of the loop of lines 262-265 from position i (1-based) down
FisherYates(q, i) ==
    IF i <= 1 THEN {q}
    ELSE UNION {FisherYates(Swap(q, i, j), i - 1) : j \in 1..i}

\* the map of lines 267-272; index is the 0-based position in the array
NewCard(symbol, index) ==
    [id |-> index, symbol |-> symbol, isFlipped |-> FALSE, isMatched |-> FALSE]

\* the decks shuffleCards can build from a configuration, one for every
\* sequence of values of Math.random
DecksOf(config) ==
    LET cardPairs == cardPairsOf(config, config.pairs)
    IN  {[i \in 1..Len(q) |-> NewCard(q[i], i - 1)] :
            q \in FisherYates(cardPairs, Len(cardPairs))}

\* the decks shuffleCards can build for a difficulty
shuffleCards(difficulty) == DecksOf(difficultyConfigs[difficulty])

(***************************************************************************)
(* Timers, score, leaderboard, endGame                                     *)
(***************************************************************************)
startTimer(s) ==
    [s EXCEPT !.leakedTimers = IF s.timerInterval THEN Min(@ + 1, MaxLeaked) ELSE @,
              !.timerInterval = TRUE]

startTimeLimit(s) ==
    [s EXCEPT !.timeLimit = difficultyConfigs[s.currentDifficulty].timeLimit,
              !.leakedLimits = IF s.timeLimitInterval THEN Min(@ + 1, MaxLeaked) ELSE @,
              !.timeLimitInterval = TRUE]

stopTimer(s) == [s EXCEPT !.timerInterval = FALSE, !.timeLimitInterval = FALSE]

startGame(s) ==
    IF ~s.gameActive
    THEN startTimeLimit(startTimer([s EXCEPT !.gameActive = TRUE, !.startTime = now]))
    ELSE s

\* the score with Math.round in place of Math.floor
ScoreOfRounded(mp, mv, elapsedMs, config) ==
    LET timeBonusMs == IF config.timeLimit * 1000 - elapsedMs >= 0
                       THEN config.timeLimit * 1000 - elapsedMs ELSE 0
        moveBonus == IF config.pairs * 2 - mv >= 0 THEN config.pairs * 2 - mv ELSE 0
    IN  (mp * 100 * 1000 + timeBonusMs + moveBonus * 1000 + 500) \div 1000

\* Math.floor(matchedPairs * 100 + timeBonus + moveBonus), times in ms
ScoreOf(mp, mv, elapsedMs, config) ==
    LET timeBonusMs == Max(0, config.timeLimit * 1000 - elapsedMs)
        moveBonus == Max(0, config.pairs * 2 - mv)
    IN  (mp * 100 * 1000 + timeBonusMs + moveBonus * 1000) \div 1000

\* updateScore with the pause-adjusted time of the display as timeElapsed
updateScorePauseAdjusted(s) ==
    [s EXCEPT !.score = ScoreOf(s.matchedPairs, s.moves,
                                now - s.startTime - s.totalPauseTime,
                                difficultyConfigs[s.currentDifficulty])]

updateScore(s) ==
    [s EXCEPT !.score = ScoreOf(s.matchedPairs, s.moves, now - s.startTime,
                                difficultyConfigs[s.currentDifficulty])]

\* the test of line 500 with >= in place of >
checkHighScoreOrEqual(board, sc) ==
    Len(board) < TopN \/ sc >= board[Len(board)]

checkHighScore(board, sc) ==
    Len(board) < TopN \/ sc > board[Len(board)]

\* Array.prototype.sort with (a, b) => b.score - a.score: stable, descending
RECURSIVE InsertDesc(_, _)
InsertDesc(sorted, x) ==
    IF sorted = <<>> THEN <<x>>
    ELSE IF Head(sorted) >= x THEN <<Head(sorted)>> \o InsertDesc(Tail(sorted), x)
    ELSE <<x>> \o sorted

RECURSIVE SortDesc(_)
SortDesc(q) ==
    IF q = <<>> THEN <<>>
    ELSE InsertDesc(SortDesc(SubSeq(q, 1, Len(q) - 1)), q[Len(q)])

\* push, sort, slice(-5): the last five of the sorted list are kept
saveToLeaderboardTail(board, sc) ==
    LET sorted == SortDesc(Append(board, sc))
    IN  SubSeq(sorted, Max(1, Len(sorted) - TopN + 1), Len(sorted))

\* push and sort without the slice of line 514
saveToLeaderboardUncut(board, sc) == SortDesc(Append(board, sc))

\* push, sort, slice(0, 5); an entry is represented by its score
saveToLeaderboard(board, sc) ==
    LET sorted == SortDesc(Append(board, sc))
    IN  SubSeq(sorted, 1, Min(Len(sorted), TopN))

\* what localStorage holds under 'memoryGameLeaderboard': nothing, the
\* JSON text of a leaderboard, or a text that is not JSON
Absent == [kind |-> "absent", value |-> <<>>]

Corrupt == [kind |-> "corrupt", value |-> <<>>]

\* JSON.stringify of a leaderboard
Stringify(board) == [kind |-> "json", value |-> board]

\* saved ? JSON.parse(saved) : []; JSON.parse throws on a text that is not JSON
loadLeaderboard(saved) ==
    IF saved.kind = "absent" THEN [threw |-> FALSE, value |-> <<>>]
    ELSE IF saved.kind = "json" THEN [threw |-> FALSE, value |-> saved.value]
    ELSE [threw |-> TRUE, value |-> <<>>]

\* saveToLeaderboard as a method: the new leaderboard, saved by saveLeaderboard
submit(s, sc) ==
    LET board == saveToLeaderboard(s.leaderboard, sc)
    IN  [s EXCEPT !.leaderboard = board, !.stored = Stringify(board)]

\* endGame that plays the completion sound whatever timeUp is
endGameLoud(s, timeUp) ==
    LET s1 == stopTimer([s EXCEPT !.gameActive = FALSE])
        s2 == playSound(s1, "complete")
        finalScore == s2.score
        isHighScore == checkHighScore(s2.leaderboard, finalScore)
    IN  IF isHighScore THEN submit(s2, finalScore) ELSE s2

endGame(s, timeUp) ==
    LET s1 == stopTimer([s EXCEPT !.gameActive = FALSE])
        s2 == IF ~timeUp THEN playSound(s1, "complete") ELSE s1
        finalScore == s2.score
        isHighScore == checkHighScore(s2.leaderboard, finalScore)
    IN  IF isHighScore THEN submit(s2, finalScore) ELSE s2

(***************************************************************************)
(* flipCard and checkForMatch                                              *)
(***************************************************************************)
\* A setTimeout callback of checkForMatch.  live: its two cards belong to the
\* current deck (c1, c2), else they are cards of a replaced deck.  mp0 is
\* matchedPairs at the time the pair was flipped.
Callback(kind, c1, c2, mp0) ==
    [kind |-> kind, live |-> TRUE, c1 |-> c1, c2 |-> c2, mp0 |-> mp0]

checkForMatch(s) ==
    LET c1 == s.flippedCards[1]
        c2 == s.flippedCards[2]
    IN  IF s.cards[c1].symbol = s.cards[c2].symbol
        THEN [playSound(s, "match") EXCEPT
                 !.pending = Append(@, Callback("match", c1, c2, s.matchedPairs))]
        ELSE [s EXCEPT
                 !.pending = Append(@, Callback("flipBack", c1, c2, s.matchedPairs))]

\* flipCard with the test of line 319 off by one (length > 2)
flipCardOffByOne(s0, c) ==
    LET s  == Enter(s0)
        s1 == IF ~s.gameActive THEN startGame(s) ELSE s
    IN  IF s1.gamePaused THEN s1
        ELSE IF s1.cards[c].isFlipped \/ s1.cards[c].isMatched
                \/ Len(s1.flippedCards) > 2 THEN s1
        ELSE LET s2 == playSound(s1, "flip")
                 s3 == [s2 EXCEPT !.cards[c].isFlipped = TRUE,
                                  !.flippedCards = Append(@, c)]
             IN  IF Len(s3.flippedCards) = 2
                 THEN checkForMatch([s3 EXCEPT !.moves = @ + 1])
                 ELSE s3

\* flipCard with moves++ outside the test of line 332: every accepted flip
\* counts
flipCardCountsEach(s0, c) ==
    LET s  == Enter(s0)
        s1 == IF ~s.gameActive THEN startGame(s) ELSE s
    IN  IF s1.gamePaused THEN s1
        ELSE IF s1.cards[c].isFlipped \/ s1.cards[c].isMatched
                \/ Len(s1.flippedCards) >= 2 THEN s1
        ELSE LET s2 == playSound(s1, "flip")
                 s3 == [s2 EXCEPT !.cards[c].isFlipped = TRUE,
                                  !.flippedCards = Append(@, c),
                                  !.moves = @ + 1]
             IN  IF Len(s3.flippedCards) = 2 THEN checkForMatch(s3) ELSE s3

flipCard(s0, c) ==
    LET s  == Enter(s0)
        s1 == IF ~s.gameActive THEN startGame(s) ELSE s
    IN  IF s1.gamePaused THEN s1
        ELSE IF s1.cards[c].isFlipped \/ s1.cards[c].isMatched
                \/ Len(s1.flippedCards) >= 2 THEN s1
        ELSE LET s2 == playSound(s1, "flip")
                 s3 == [s2 EXCEPT !.cards[c].isFlipped = TRUE,
                                  !.flippedCards = Append(@, c)]
             IN  IF Len(s3.flippedCards) = 2
                 THEN checkForMatch([s3 EXCEPT !.moves = @ + 1])
                 ELSE s3

RemoveAt(q, i) == SubSeq(q, 1, i - 1) \o SubSeq(q, i + 1, Len(q))

\* the callback of lines 355-370, run for pending[i]
matchCallback(s0, i) ==
    LET s  == Enter(s0)
        cb == s.pending[i]
        s1 == [s EXCEPT !.pending = RemoveAt(@, i)]
        s2 == IF cb.live
              THEN [s1 EXCEPT !.cards[cb.c1].isMatched = TRUE,
                              !.cards[cb.c2].isMatched = TRUE]
              ELSE s1
        s3 == updateScore([s2 EXCEPT !.matchedPairs = @ + 1,
                                     !.flippedCards = <<>>])
    IN  IF s3.matchedPairs = difficultyConfigs[s3.currentDifficulty].pairs
        THEN endGame(s3, FALSE)
        ELSE s3

\* the callback with line 389 left out: the second card stays face-up
flipBackCallbackFirstOnly(s0, i) ==
    LET s  == Enter(s0)
        cb == s.pending[i]
        s1 == [s EXCEPT !.pending = RemoveAt(@, i)]
        s2 == IF cb.live
              THEN [s1 EXCEPT !.cards[cb.c1].isFlipped = FALSE]
              ELSE s1
    IN  [s2 EXCEPT !.flippedCards = <<>>]

\* the callback of lines 385-392, run for pending[i]
flipBackCallback(s0, i) ==
    LET s  == Enter(s0)
        cb == s.pending[i]
        s1 == [s EXCEPT !.pending = RemoveAt(@, i)]
        s2 == IF cb.live
              THEN [s1 EXCEPT !.cards[cb.c1].isFlipped = FALSE,
                              !.cards[cb.c2].isFlipped = FALSE]
              ELSE s1
    IN  [s2 EXCEPT !.flippedCards = <<>>]

(***************************************************************************)
(* Interval callbacks                                                      *)
(***************************************************************************)
\* lines 410-418; the text shown is the elapsed time in ms before formatting
timerTick(s0) ==
    LET s == Enter(s0)
    IN  [s EXCEPT !.timerText = now - s.startTime - s.totalPauseTime]

\* the callback with the test of line 428 off by one (timeLimit < 0)
timeLimitTickOffByOne(s0) ==
    LET s  == Enter(s0)
        s1 == [s EXCEPT !.timeLimit = @ - 1]
    IN  IF s1.timeLimit < 0 THEN endGame(s1, TRUE) ELSE s1

\* lines 425-431
timeLimitTick(s0) ==
    LET s  == Enter(s0)
        s1 == [s EXCEPT !.timeLimit = @ - 1]
    IN  IF s1.timeLimit <= 0 THEN endGame(s1, TRUE) ELSE s1

(***************************************************************************)
(* Reset, pause, resume                                                    *)
(***************************************************************************)
\* resetStats that also turns every card face-down and unmatched
resetStatsAndCards(s) ==
    stopTimer([s EXCEPT !.moves = 0, !.matchedPairs = 0, !.flippedCards = <<>>,
                        !.gameActive = FALSE, !.gamePaused = FALSE,
                        !.startTime = Null, !.pauseStartTime = Null,
                        !.totalPauseTime = 0, !.timeLimit = Null,
                        !.timerText = Null, !.score = 0,
                        !.cards = [c \in DOMAIN @ |->
                                      [@[c] EXCEPT !.isFlipped = FALSE,
                                                   !.isMatched = FALSE]]])

resetStats(s) ==
    stopTimer([s EXCEPT !.moves = 0, !.matchedPairs = 0, !.flippedCards = <<>>,
                        !.gameActive = FALSE, !.gamePaused = FALSE,
                        !.startTime = Null, !.pauseStartTime = Null,
                        !.totalPauseTime = 0, !.timeLimit = Null,
                        !.timerText = Null, !.score = 0])

\* shuffleCards replaces this.cards: callbacks still pending keep the old cards
Replace(s, deck) ==
    [s EXCEPT !.cards = deck,
              !.pending = [i \in 1..Len(@) |->
                              [@[i] EXCEPT !.live = FALSE, !.c1 = 0, !.c2 = 0,
                                           !.mp0 = 0]]]

\* with a name that difficultyConfigs does not have, shuffleCards throws at
\* line 246 (config is undefined), after the name is stored and the
\* statistics are reset
changeDifficulty(s0, difficulty, deck) ==
    LET s1 == resetStats([Enter(s0) EXCEPT !.currentDifficulty = difficulty])
    IN  IF difficulty \in Difficulties THEN Replace(s1, deck)
        ELSE [s1 EXCEPT !.threw = TRUE]

newGame(s0, deck) == Replace(resetStats(Enter(s0)), deck)

resetGame(s0) == resetStats(Enter(s0))

pauseGame(s0) ==
    LET s == Enter(s0)
    IN  IF ~s.gameActive \/ s.gamePaused THEN s
        ELSE stopTimer([s EXCEPT !.gamePaused = TRUE, !.pauseStartTime = now])

resumeGame(s0) ==
    LET s == Enter(s0)
    IN  IF ~s.gamePaused THEN s
        ELSE LET s1 == [s EXCEPT !.gamePaused = FALSE]
                 s2 == IF s1.pauseStartTime # Null
                       THEN [s1 EXCEPT !.totalPauseTime = @ + (now - s1.pauseStartTime),
                                       !.pauseStartTime = Null]
                       ELSE s1
             IN  startTimeLimit(startTimer(s2))

(***************************************************************************)
(* The state machine                                                       *)
(***************************************************************************)
\* the leaderboard a previous visit left in localStorage: five entries that
\* no score of the model beats
StoredBoard == [i \in 1..TopN |-> TopScore]

\* constructor: loadLeaderboard, initializeGame on 'medium', resetStats;
\* `saved` is what localStorage holds.  When loadLeaderboard throws the
\* constructor does not return: no deck is built, no listener attached.
Constructed(saved) ==
    /\ stored = saved
    /\ constructed = ~loadLeaderboard(saved).threw
    /\ currentDifficulty = "medium"
    /\ cards \in IF constructed THEN shuffleCards("medium") ELSE {<<>>}
    /\ flippedCards = <<>>
    /\ matchedPairs = 0
    /\ moves = 0
    /\ startTime = Null
    /\ timerInterval = FALSE
    /\ gameActive = FALSE
    /\ gamePaused = FALSE
    /\ pauseStartTime = Null
    /\ totalPauseTime = 0
    /\ timeLimit = Null
    /\ timeLimitInterval = FALSE
    /\ leaderboard = loadLeaderboard(saved).value
    /\ pending = <<>>
    /\ leakedTimers = 0
    /\ leakedLimits = 0
    /\ score = 0
    /\ now = Step
    /\ playedTime = 0

Init == Constructed(Stringify(StoredBoard))

\* the caps of a specification on what a step may produce
Caps == [pending |-> MaxPending, moves |-> MaxMoves, overrun |-> MaxOverrun,
         saves |-> MaxSaves, time |-> MaxTime, leaked |-> MaxLeaked]

Within(t, k) ==
    /\ Len(t.pending) <= k.pending
    /\ t.moves <= k.moves
    /\ t.timeLimit >= 0 - k.overrun
    /\ t.leakedTimers <= k.leaked /\ t.leakedLimits <= k.leaked
    /\ Len(t.leaderboard) <= k.saves \/ Len(t.leaderboard) = Len(leaderboard)

\* a handler runs at one instant; a game that starts has played no time
Do(t, k) ==
    /\ constructed
    /\ Within(t, k)
    /\ Apply(t)
    /\ playedTime' = IF gameActive /\ t.gameActive THEN playedTime ELSE 0
    /\ UNCHANGED <<now, constructed>>

\* a click on card c
FlipCard(k, c) == Do(flipCard(S, c), k)

MatchCallback(k, i) == pending[i].kind = "match" /\ Do(matchCallback(S, i), k)

FlipBackCallback(k, i) ==
    pending[i].kind = "flipBack" /\ Do(flipBackCallback(S, i), k)

TimerLive(s) == s.timerInterval \/ s.leakedTimers > 0

TimeLimitLive(s) == s.timeLimitInterval \/ s.leakedLimits > 0

TimerTick(k) == TimerLive(S) /\ Do(timerTick(S), k)

TimeLimitTick(k) == TimeLimitLive(S) /\ Do(timeLimitTick(S), k)

PauseGame(k) == Do(pauseGame(S), k)

ResumeGame(k) == Do(resumeGame(S), k)

NewGame(k) == \E deck \in shuffleCards(currentDifficulty) : Do(newGame(S, deck), k)

ResetGame(k) == Do(resetGame(S), k)

ChangeDifficulty(k, d) ==
    \E deck \in shuffleCards(d) : Do(changeDifficulty(S, d, deck), k)

\* time passes
Advance(k) ==
    /\ now + Step <= k.time
    /\ now' = now + Step
    /\ playedTime' = IF gameActive /\ ~gamePaused THEN playedTime + Step
                      ELSE playedTime
    /\ UNCHANGED <<cards, flippedCards, matchedPairs, moves, startTime,
                   timerInterval, gameActive, gamePaused, pauseStartTime,
                   totalPauseTime, currentDifficulty, timeLimit,
                   timeLimitInterval, leaderboard, pending, leakedTimers,
                   leakedLimits, score, stored, constructed>>

NextOf(k, ds) ==
    \/ \E c \in 1..Len(cards) : FlipCard(k, c)
    \/ \E i \in 1..Len(pending) : MatchCallback(k, i)
    \/ \E i \in 1..Len(pending) : FlipBackCallback(k, i)
    \/ TimerTick(k)
    \/ TimeLimitTick(k)
    \/ PauseGame(k)
    \/ ResumeGame(k)
    \/ NewGame(k)
    \/ ResetGame(k)
    \/ \E d \in ds : ChangeDifficulty(k, d)
    \/ Advance(k)

Next == NextOf(Caps, Difficulties)

Spec == Init /\ [][Next]_vars

\* setInterval runs its callback every second for as long as the interval is
\* live: the countdown tick is not postponed forever
CountdownCaps ==
    [Caps EXCEPT !.moves = CountdownMoves, !.leaked = CountdownLeaked]

NextCountdown == NextOf(CountdownCaps, Difficulties)

FairSpec ==
    Init /\ [][NextCountdown]_vars /\ WF_vars(TimeLimitTick(CountdownCaps))

\* setTimeout callbacks are never cancelled: a reset may leave one pending
\* while the next pair schedules another
OverlapCaps ==
    [Caps EXCEPT !.pending = OverlapPending, !.moves = OverlapMoves,
                 !.leaked = OverlapLeaked]

NextOverlap == NextOf(OverlapCaps, Difficulties)

OverlapSpec == Init /\ [][NextOverlap]_vars

\* games of a visit that found a full leaderboard whose last entry a game of
\* the model can beat
BeatableBoard == [i \in 1..TopN |-> IF i < TopN THEN TopScore ELSE BeatableScore]

InitRank == Constructed(Stringify(BeatableBoard))

RankCaps ==
    [Caps EXCEPT !.moves = RankMoves, !.leaked = RankLeaked, !.saves = TopN]

NextRank == NextOf(RankCaps, Difficulties)

RankSpec == InitRank /\ [][NextRank]_vars

\* saveToLeaderboard called on its own, as the tests call it, on the
\* leaderboard of a first visit (nothing stored)
SaveToLeaderboard(sc) ==
    /\ constructed
    /\ Apply(submit(S, sc))
    /\ UNCHANGED <<now, playedTime, constructed>>

\* what endGame does with a final score (lines 469-496): checkHighScore,
\* then saveToLeaderboard when it is a high score
SubmitFinalScore(sc) ==
    /\ constructed
    /\ Apply(IF checkHighScore(leaderboard, sc) THEN submit(S, sc) ELSE S)
    /\ UNCHANGED <<now, playedTime, constructed>>

InitBoard == Constructed(Absent)

NextBoard ==
    \E sc \in 0..MaxScore : SaveToLeaderboard(sc) \/ SubmitFinalScore(sc)

BoardSpec == InitBoard /\ [][NextBoard]_vars

\* a visit of the page with whatever localStorage holds: nothing, a text
\* that is not JSON, or the leaderboard an earlier visit saved
Blobs == {Absent, Corrupt, Stringify(<<>>), Stringify(StoredBoard)}

InitStart == \E saved \in Blobs : Constructed(saved)

\* the page is loaded again: DOMContentLoaded runs the constructor on what
\* localStorage holds now
Reload ==
    /\ constructed' = ~loadLeaderboard(stored).threw
    /\ leaderboard' = loadLeaderboard(stored).value
    /\ cards' \in IF constructed' THEN shuffleCards("medium") ELSE {<<>>}
    /\ currentDifficulty' = "medium"
    /\ flippedCards' = <<>> /\ matchedPairs' = 0 /\ moves' = 0
    /\ startTime' = Null /\ timerInterval' = FALSE
    /\ gameActive' = FALSE /\ gamePaused' = FALSE
    /\ pauseStartTime' = Null /\ totalPauseTime' = 0
    /\ timeLimit' = Null /\ timeLimitInterval' = FALSE
    /\ pending' = <<>> /\ leakedTimers' = 0 /\ leakedLimits' = 0
    /\ score' = 0 /\ playedTime' = 0
    /\ UNCHANGED <<stored, now>>

NextStart == NextBoard \/ Reload

StartSpec == InitStart /\ [][NextStart]_vars

(***************************************************************************)
(* Vocabulary of the properties                                            *)
(***************************************************************************)
\* the fields of the game object, and the intervals the browser still runs
Session(s) ==
    [cards |-> s.cards, flippedCards |-> s.flippedCards,
     matchedPairs |-> s.matchedPairs, moves |-> s.moves,
     startTime |-> s.startTime, gameActive |-> s.gameActive,
     gamePaused |-> s.gamePaused, pauseStartTime |-> s.pauseStartTime,
     totalPauseTime |-> s.totalPauseTime,
     currentDifficulty |-> s.currentDifficulty, timeLimit |-> s.timeLimit,
     timerInterval |-> s.timerInterval,
     timeLimitInterval |-> s.timeLimitInterval,
     leakedTimers |-> s.leakedTimers, leakedLimits |-> s.leakedLimits,
     leaderboard |-> s.leaderboard, score |-> s.score]

\* the handler changed nothing and played no sound
NoOp(s, t) == Session(t) = Session(s) /\ t.pending = s.pending /\ t.emitted = <<>>

pairCount == difficultyConfigs[currentDifficulty].pairs

Cards == 1..Len(cards)

Pending == 1..Len(pending)

MatchPending(i) == pending[i].kind = "match" /\ pending[i].live

FlipBackPending(i) == pending[i].kind = "flipBack" /\ pending[i].live

\* a click on c that flipCard accepts as the second face-up card
SecondFlip(c) ==
    /\ ~gamePaused
    /\ ~cards[c].isFlipped /\ ~cards[c].isMatched
    /\ Len(flippedCards) = 1

C2_PausedFlipIsNoOp ==
    gamePaused => \A c \in Cards : NoOp(S, flipCard(S, c))

(***************************************************************************)
(* C3.  When the reveal callback of a matching pair runs, both cards are   *)
(* matched, flippedCards is empty and matchedPairs is exactly 1 greater    *)
(* than it was when the pair was flipped.                                  *)
(***************************************************************************)
C3_MatchResolves ==
    \A i \in Pending :
        MatchPending(i) =>
            LET cb == pending[i]
                t == matchCallback(S, i)
            IN  /\ t.cards[cb.c1].isMatched /\ t.cards[cb.c2].isMatched
                /\ t.flippedCards = <<>>
                /\ t.matchedPairs = cb.mp0 + 1

(***************************************************************************)
(* C4.  A second accepted flip that reveals a different symbol schedules   *)
(* one flip-back callback for the two face-up cards; when that callback    *)
(* runs, both cards are face-down, flippedCards is empty, and neither      *)
(* matchedPairs nor any card's isMatched has changed.                      *)
(***************************************************************************)
C4_MismatchScheduled ==
    \A c \in Cards :
        (SecondFlip(c) /\ cards[c].symbol # cards[flippedCards[1]].symbol) =>
            LET t == flipCard(S, c)
                cb == t.pending[Len(t.pending)]
            IN  /\ Len(t.pending) = Len(pending) + 1
                /\ cb.kind = "flipBack" /\ cb.live
                /\ cb.c1 = flippedCards[1] /\ cb.c2 = c
                /\ t.cards[cb.c1].isFlipped /\ t.cards[cb.c2].isFlipped
                /\ t.matchedPairs = matchedPairs

C4_FlipBackResolves ==
    \A i \in Pending :
        pending[i].kind = "flipBack" =>
            LET cb == pending[i]
                t == flipBackCallback(S, i)
            IN  /\ cb.live =>
                      /\ cards[cb.c1].symbol # cards[cb.c2].symbol
                      /\ ~t.cards[cb.c1].isFlipped /\ ~t.cards[cb.c2].isFlipped
                /\ t.flippedCards = <<>>
                /\ t.matchedPairs = matchedPairs
                /\ \A c \in Cards : t.cards[c].isMatched = cards[c].isMatched

C4_MismatchFlipsBack == C4_MismatchScheduled /\ C4_FlipBackResolves

\* a live flip-back callback is about to run
C4_Witness == \E i \in Pending : FlipBackPending(i) /\ Len(flippedCards) = 2

(***************************************************************************)
(* C5.  When the reveal callback of the last unmatched pair of the deck    *)
(* runs, the session becomes Complete: gameActive is false, both tickers   *)
(* are stopped and matchedPairs equals the pair count of the difficulty.   *)
(***************************************************************************)
LastUnmatchedPair(i) ==
    /\ MatchPending(i)
    /\ \A c \in Cards : cards[c].isMatched <=> c \notin {pending[i].c1, pending[i].c2}

C5_LastPairCompletes ==
    \A i \in Pending :
        LastUnmatchedPair(i) =>
            LET t == matchCallback(S, i)
            IN  /\ ~t.gameActive
                /\ ~TimerLive(t) /\ ~TimeLimitLive(t)
                /\ t.matchedPairs = pairCount

(***************************************************************************)
(* C6.  Complete is terminal: once endGame has run, no flipCard,           *)
(* pauseGame, resumeGame, tick or pending callback changes the session,    *)
(* which stays inactive with the same counters and no running ticker.      *)
(***************************************************************************)
\* the sessions endGame can leave, by a reveal callback or by the countdown
EndGameResults ==
    {matchCallback(S, i) :
        i \in {j \in Pending : /\ pending[j].kind = "match"
                               /\ matchedPairs + 1 = pairCount}}
    \cup {timeLimitTick(s) : s \in {x \in {S} : TimeLimitLive(x) /\ x.timeLimit <= 1}}

Terminal(t) ==
    /\ ~t.gameActive
    /\ ~TimerLive(t) /\ ~TimeLimitLive(t)
    /\ \A c \in 1..Len(t.cards) : Session(flipCard(t, c)) = Session(t)
    /\ Session(pauseGame(t)) = Session(t)
    /\ Session(resumeGame(t)) = Session(t)
    /\ \A i \in 1..Len(t.pending) :
           Session(IF t.pending[i].kind = "match" THEN matchCallback(t, i)
                   ELSE flipBackCallback(t, i)) = Session(t)

C6_CompleteIsTerminal == \A t \in EndGameResults : Terminal(t)

(***************************************************************************)
(* C7.  matchedPairs never exceeds the pair count of the current           *)
(* difficulty.                                                             *)
(***************************************************************************)
C7_MatchedPairsBounded == matchedPairs <= pairCount

(***************************************************************************)
(* C8.  Paused implies active: gamePaused is never true while gameActive   *)
(* is false.                                                               *)
(***************************************************************************)
C8_PausedImpliesActive == gamePaused => gameActive

(***************************************************************************)
(* C9.  flippedCards never holds more than 2 cards.                        *)
(***************************************************************************)
C9_AtMostTwoFaceUp == Len(flippedCards) <= 2

\* two cards are face-up, the third click is still to be refused
C9_Witness ==
    /\ Len(flippedCards) = 2
    /\ \E c \in Cards : ~cards[c].isFlipped /\ ~cards[c].isMatched
    /\ gameActive /\ ~gamePaused

(***************************************************************************)
(* C10.  Between a pauseGame and the next resumeGame, d later,             *)
(* totalPauseTime grows by exactly d and moves and matchedPairs keep the   *)
(* values they had before the pause, whatever happens in between: no step  *)
(* taken while paused changes moves, matchedPairs, totalPauseTime or the   *)
(* recorded time of the pause, and the step that resumes adds the time     *)
(* since the pause to totalPauseTime.                                      *)
(***************************************************************************)
StaysPaused == gamePaused /\ gamePaused'

\* resumeGame took effect (a reset also ends the pause, and clears startTime)
Resumes == gamePaused /\ ~gamePaused' /\ startTime' = startTime /\ startTime # Null

C10_PauseResumeAccounting ==
    [][/\ StaysPaused =>
             /\ moves' = moves /\ matchedPairs' = matchedPairs
             /\ totalPauseTime' = totalPauseTime
             /\ pauseStartTime' = pauseStartTime
       /\ Resumes =>
             /\ moves' = moves /\ matchedPairs' = matchedPairs
             /\ totalPauseTime' = totalPauseTime + (now - pauseStartTime)]_vars

(***************************************************************************)
(* C11.  At every tick of the elapsed-time ticker of a game in progress    *)
(* the time it displays, now - startTime - totalPauseTime, is the time the *)
(* game has spent active and not paused since it started: no paused        *)
(* interval is counted.                                                    *)
(***************************************************************************)
C11_DisplayExcludesPauses ==
    (gameActive /\ TimerLive(S)) => timerTick(S).timerText = playedTime

(***************************************************************************)
(* C12.  Whenever the session is Idle, Paused or Complete (not active, or  *)
(* paused) no elapsed-time ticker and no countdown ticker is running.      *)
(***************************************************************************)
C12_NoTickerUnlessRunning ==
    (~gameActive \/ gamePaused) => ~TimerLive(S) /\ ~TimeLimitLive(S)

(***************************************************************************)
(* C13.  A game that is active and not paused has a running countdown of   *)
(* at least 1 and at most timeLimit seconds; every countdown tick takes    *)
(* one second off, and the tick that reaches 0 ends the game as endGame    *)
(* (true) does: inactive, handles cleared, no 'complete' sound.  So, the   *)
(* interval firing as long as it is live, the game does not stay active    *)
(* and un-paused forever: within timeLimit ticks it is completed, unless   *)
(* it is paused, reset or completed by matching first.                     *)
(***************************************************************************)
Running == gameActive /\ ~gamePaused

C13_CountdownInRange ==
    Running =>
        /\ TimeLimitLive(S)
        /\ timeLimit >= 1
        /\ timeLimit <= difficultyConfigs[currentDifficulty].timeLimit

C13_TickCountsDown ==
    (Running /\ TimeLimitLive(S)) =>
        LET t == timeLimitTick(S)
        IN  /\ t.timeLimit = timeLimit - 1
            /\ t.gameActive <=> t.timeLimit > 0
            /\ ~t.gameActive =>
                   /\ ~t.timerInterval /\ ~t.timeLimitInterval
                   /\ t.emitted = <<>>
                   /\ t.matchedPairs = matchedPairs

C13_CountdownForcesCompletion ==
    /\ [](C13_CountdownInRange /\ C13_TickCountsDown)
    /\ Running ~> ~Running

\* the countdown, not the last match, has ended a game
C13_Witness ==
    /\ ~gameActive /\ ~gamePaused
    /\ startTime # Null /\ timeLimit = 0
    /\ matchedPairs < pairCount

(***************************************************************************)
(* C14.  pauseGame changes the session only when it is active and not      *)
(* paused: it then sets gamePaused, records the time in pauseStartTime and *)
(* stops both tickers, so that none is running; in Idle, Paused or         *)
(* Complete it changes nothing.                                            *)
(***************************************************************************)
C14_PauseGameFrame ==
    LET t == pauseGame(S)
    IN  IF gameActive /\ ~gamePaused
        THEN /\ t.gamePaused /\ t.gameActive
             /\ t.pauseStartTime = now
             /\ ~TimerLive(t) /\ ~TimeLimitLive(t)
        ELSE NoOp(S, t)

(***************************************************************************)
(* C15.  resumeGame changes the session only when it is paused: it then    *)
(* clears gamePaused and pauseStartTime, adds now - pauseStartTime to      *)
(* totalPauseTime and leaves the session active with both tickers running; *)
(* when the session is not paused it changes nothing.                      *)
(***************************************************************************)
C15_ResumeGameFrame ==
    LET t == resumeGame(S)
    IN  IF gamePaused
        THEN /\ ~t.gamePaused /\ t.pauseStartTime = Null
             /\ t.totalPauseTime = totalPauseTime + (now - pauseStartTime)
             /\ t.gameActive
             /\ t.timerInterval /\ t.timeLimitInterval
        ELSE NoOp(S, t)

(***************************************************************************)
(* C16.  Immediately after newGame, or changeDifficulty(d) with d one of   *)
(* easy, medium, hard, the session is Idle: moves and matchedPairs are 0,  *)
(* flippedCards is empty, the session is neither active nor paused,        *)
(* startTime and pauseStartTime are cleared, totalPauseTime is 0, no       *)
(* ticker is running, and the deck is a new one for the current            *)
(* difficulty with every card face-down and unmatched.                     *)
(***************************************************************************)
Idle(t) ==
    /\ t.moves = 0 /\ t.matchedPairs = 0 /\ t.flippedCards = <<>>
    /\ ~t.gameActive /\ ~t.gamePaused
    /\ t.startTime = Null /\ t.pauseStartTime = Null /\ t.totalPauseTime = 0
    /\ ~TimerLive(t) /\ ~TimeLimitLive(t)

FreshDeck(t, deck) ==
    /\ t.cards = deck
    /\ Len(t.cards) = 2 * difficultyConfigs[t.currentDifficulty].pairs
    /\ \A c \in 1..Len(t.cards) : ~t.cards[c].isFlipped /\ ~t.cards[c].isMatched

C16_NewGameIsIdle ==
    /\ \A deck \in shuffleCards(currentDifficulty) :
           LET t == newGame(S, deck)
           IN  Idle(t) /\ FreshDeck(t, deck) /\ t.currentDifficulty = currentDifficulty
    /\ \A d \in Difficulties : \A deck \in shuffleCards(d) :
           LET t == changeDifficulty(S, d, deck)
           IN  Idle(t) /\ FreshDeck(t, deck) /\ t.currentDifficulty = d

(***************************************************************************)
(* Decks                                                                   *)
(***************************************************************************)
SymbolsOf(deck) == [i \in 1..Len(deck) |-> deck[i].symbol]

Count(q, x) == Cardinality({i \in 1..Len(q) : q[i] = x})

EachTwice(q) == \A i \in 1..Len(q) : Count(q, q[i]) = 2

\* every arrangement of the elements of q
ArrangementsOf(q) ==
    {a \in [1..Len(q) -> {q[i] : i \in 1..Len(q)}] :
        \A i \in 1..Len(q) : Count(a, q[i]) = Count(q, q[i])}

\* a configuration of n pairs with n symbols
ConfigOf(n) == [pairs |-> n, symbols |-> Range(n)]

(***************************************************************************)
(* C17.  For each difficulty shuffleCards builds a deck of exactly         *)
(* 2 * pairs cards (16, 16 and 36 with the pair counts of script.js) in    *)
(* which every symbol that occurs occurs exactly twice, whatever the       *)
(* random draws.                                                           *)
(***************************************************************************)
\* the deck of the session, built by the constructor, newGame or
\* changeDifficulty
C17_SessionDeck ==
    /\ Len(cards) = 2 * pairCount
    /\ EachTwice(SymbolsOf(cards))

\* every deck of 1..ShufflePairs pairs, for every sequence of draws
C17_EveryDraw ==
    \A n \in 1..ShufflePairs : \A deck \in DecksOf(ConfigOf(n)) :
        Len(deck) = 2 * n /\ EachTwice(SymbolsOf(deck))

\* the list that is shuffled, with the configurations of script.js
C17_SourceSizes ==
    /\ \A d \in Difficulties :
           LET config == sourceConfigs[d]
               cardPairs == cardPairsOf(config, config.pairs)
           IN  Len(cardPairs) = 2 * config.pairs /\ EachTwice(cardPairs)
    /\ Len(cardPairsOf(sourceConfigs.easy, sourceConfigs.easy.pairs)) = 16
    /\ Len(cardPairsOf(sourceConfigs.medium, sourceConfigs.medium.pairs)) = 16
    /\ Len(cardPairsOf(sourceConfigs.hard, sourceConfigs.hard.pairs)) = 36

C17_DeckHasEachSymbolTwice ==
    C17_SessionDeck /\ C17_EveryDraw /\ C17_SourceSizes

\* a new deck of two pairs that the shuffle has rearranged
C17_Witness ==
    /\ currentDifficulty = "hard" /\ ~gameActive /\ moves = 0
    /\ SymbolsOf(cards) # cardPairsOf(difficultyConfigs.hard, HardPairs)

(***************************************************************************)
(* C18.  The Fisher-Yates loop of shuffleCards (i from the last position   *)
(* down to the second, j drawn from 0..i, swap) always yields a            *)
(* permutation of the pair-duplicated symbol list, every arrangement of    *)
(* that list is produced by some sequence of draws, and the cards carry    *)
(* the ids 0..length-1, each equal to the card's position.                 *)
(***************************************************************************)
IdsArePositions(deck) == \A i \in 1..Len(deck) : deck[i].id = i - 1

\* the decks of config are exactly the arrangements of its pair list
ShuffleIsExact(config) ==
    LET cardPairs == cardPairsOf(config, config.pairs)
        decks == DecksOf(config)
    IN  /\ {SymbolsOf(deck) : deck \in decks} = ArrangementsOf(cardPairs)
        /\ \A deck \in decks : IdsArePositions(deck)

C18_SessionDeck ==
    /\ SymbolsOf(cards) \in
           ArrangementsOf(cardPairsOf(difficultyConfigs[currentDifficulty], pairCount))
    /\ IdsArePositions(cards)

C18_EveryArrangement ==
    /\ \A d \in Difficulties : ShuffleIsExact(difficultyConfigs[d])
    /\ \A n \in 1..ShufflePairs : ShuffleIsExact(ConfigOf(n))

C18_FisherYatesPermutes == C18_SessionDeck /\ C18_EveryArrangement

\* the session has a deck in which the two cards of a pair are not adjacent
C18_Witness ==
    /\ currentDifficulty = "hard"
    /\ cards[1].symbol # cards[2].symbol /\ cards[1].symbol = cards[4].symbol

(***************************************************************************)
(* C19.  updateScore computes floor(matchedPairs * 100 + max(0, timeLimit  *)
(* - elapsed seconds) + max(0, 2 * pairs - moves)) for all values of       *)
(* matchedPairs, moves and elapsed time; on easy (8 pairs, 300 s) with 8   *)
(* matched pairs, 16 moves and 0 elapsed seconds the score is 1100; the    *)
(* score is never less than matchedPairs * 100.                            *)
(***************************************************************************)
\* n = floor(x / 1000)
IsFloorOfThousandths(n, x) == n * 1000 <= x /\ x < (n + 1) * 1000

\* 1000 * (matchedPairs * 100 + time bonus + move bonus), elapsed in ms
ScoreTermsMs(mp, mv, elapsedMs, config) ==
    mp * 100 * 1000 + Max(0, config.timeLimit * 1000 - elapsedMs)
        + Max(0, 2 * config.pairs - mv) * 1000

\* updateScore run in the current state
C19_SessionScore ==
    LET t == updateScore(S)
    IN  /\ IsFloorOfThousandths(t.score,
               ScoreTermsMs(matchedPairs, moves, now - startTime,
                            difficultyConfigs[currentDifficulty]))
        /\ t.score >= matchedPairs * 100

\* the values of script.js: every count of matched pairs, moves around the
\* optimum 2 * pairs, elapsed times around whole seconds and the time limit
C19_SourceScores ==
    /\ \A d \in Difficulties :
           LET config == sourceConfigs[d]
               limitMs == config.timeLimit * 1000
           IN  \A mp \in 0..config.pairs :
               \A mv \in {0, 1, 2 * config.pairs - 1, 2 * config.pairs,
                           2 * config.pairs + 1, 3 * config.pairs} :
               \A elapsedMs \in {0, 1, 999, 1000, 1001, 60000, limitMs - 1,
                                  limitMs, limitMs + 1, 2 * limitMs} :
                   LET sc == ScoreOf(mp, mv, elapsedMs, config)
                   IN  /\ IsFloorOfThousandths(sc,
                              ScoreTermsMs(mp, mv, elapsedMs, config))
                       /\ sc >= mp * 100
    /\ ScoreOf(8, 16, 0, sourceConfigs.easy) = 1100

SortedDescending(board) ==
    \A i \in 1..Len(board) : \A j \in 1..Len(board) :
        i < j => board[i] >= board[j]

C20_LeaderboardCappedAndSorted ==
    /\ Len(leaderboard) <= 5 /\ SortedDescending(leaderboard)
    /\ \A sc \in 0..MaxScore :
           LET board == saveToLeaderboard(leaderboard, sc)
           IN  Len(board) <= 5 /\ SortedDescending(board)

\* a full leaderboard whose last entry the next save can displace
C20_Witness ==
    /\ Len(leaderboard) = 5
    /\ leaderboard[1] > leaderboard[5]
    /\ leaderboard[5] < MaxScore

(***************************************************************************)
(* C21.  After saveToLeaderboard(s) the scores of the leaderboard are the  *)
(* 5 largest (all of them when there are at most 5) of the previous scores *)
(* together with s, in descending order: [1500, 1000, 500] plus 1200 gives *)
(* [1500, 1200, 1000, 500], and ten submissions of distinct increasing     *)
(* scores into an empty leaderboard leave the five largest.                *)
(***************************************************************************)
\* board holds the 5 largest of the scores in all, largest first
IsTopFive(board, all) ==
    /\ Len(board) = IF Len(all) <= 5 THEN Len(all) ELSE 5
    /\ SortedDescending(board)
    /\ \A j \in 1..Len(board) : Count(board, board[j]) <= Count(all, board[j])
    /\ \A i \in 1..Len(all) :
           Count(board, all[i]) < Count(all, all[i]) =>
               \A j \in 1..Len(board) : board[j] >= all[i]

RECURSIVE SaveAll(_, _)
\* saveToLeaderboard called with each score of a list in turn
SaveAll(board, scores) ==
    IF scores = <<>> THEN board
    ELSE SaveAll(saveToLeaderboard(board, Head(scores)), Tail(scores))

C21_SessionBoard ==
    \A sc \in 0..MaxScore :
        IsTopFive(saveToLeaderboard(leaderboard, sc), Append(leaderboard, sc))

C21_Scenarios ==
    /\ saveToLeaderboard(<<1500, 1000, 500>>, 1200) = <<1500, 1200, 1000, 500>>
    /\ SaveAll(<<>>, [i \in 1..10 |-> 100 * i]) = <<1000, 900, 800, 700, 600>>
    /\ SaveAll(<<>>, [i \in 1..10 |-> 99 + i]) = <<109, 108, 107, 106, 105>>

C21_KeepsTopFive == C21_SessionBoard /\ C21_Scenarios

\* a full leaderboard from which the next save drops the lowest entry
C21_Witness ==
    /\ Len(leaderboard) = 5
    /\ leaderboard[1] = MaxScore /\ leaderboard[5] = 0

(***************************************************************************)
(* C22.  checkHighScore(score) is true exactly when the leaderboard holds  *)
(* fewer than 5 entries or score is strictly greater than the score of its *)
(* last, lowest-ranked entry; on an empty leaderboard it is true for every *)
(* non-negative score, and on a full leaderboard a score equal to that of  *)
(* the 5th entry is not a high score.                                      *)
(***************************************************************************)
\* the lowest score of a leaderboard that has entries
LowestOf(board) ==
    CHOOSE x \in {board[i] : i \in 1..Len(board)} :
        \A i \in 1..Len(board) : x <= board[i]

C22_CheckHighScore ==
    /\ \A sc \in 0..MaxScore :
           checkHighScore(leaderboard, sc) <=>
               (Len(leaderboard) < 5 \/ sc > LowestOf(leaderboard))
    /\ leaderboard = <<>> => \A sc \in 0..MaxScore : checkHighScore(leaderboard, sc)
    /\ Len(leaderboard) = 5 => ~checkHighScore(leaderboard, leaderboard[5])

\* a full leaderboard whose lowest score can be equalled and beaten
C22_Witness ==
    /\ Len(leaderboard) = 5
    /\ leaderboard[5] > 0 /\ leaderboard[5] < MaxScore

UnknownNames == {"expert", ""}

C24_UnknownDifficultyRejected ==
    \A name \in UnknownNames :
        LET t == changeDifficulty(S, name, cards)
        IN  /\ t.currentDifficulty \in Difficulties
            /\ Len(t.cards) = 2 * difficultyConfigs[t.currentDifficulty].pairs

(***************************************************************************)
(* C25.  Matches remain revealed: a card whose isMatched is true is        *)
(* face-up, and every handler that keeps the deck (all but newGame and     *)
(* changeDifficulty, which replace it) leaves a matched card matched and   *)
(* face-up; in particular no flip-back callback turns a matched card       *)
(* face-down.                                                              *)
(***************************************************************************)
Revealed(t) ==
    \A c \in Cards :
        cards[c].isMatched => t.cards[c].isMatched /\ t.cards[c].isFlipped

C26_ResetGameKeepsDeck ==
    LET t == resetGame(S)
    IN  /\ SymbolsOf(t.cards) = SymbolsOf(cards)
        /\ t.moves = 0 /\ t.matchedPairs = 0 /\ t.flippedCards = <<>>
        /\ ~t.gameActive /\ ~t.gamePaused /\ t.totalPauseTime = 0
        /\ \A c \in Cards : ~t.cards[c].isFlipped /\ ~t.cards[c].isMatched

(***************************************************************************)
(* C27.  A match-reveal or flip-back callback scheduled in one game never  *)
(* changes the state of a later game: a callback whose deck was replaced,  *)
(* or that is pending in a game where no pair has been flipped yet         *)
(* (moves = 0, so it was scheduled before the reset), leaves               *)
(* matchedPairs, flippedCards, the card flags and score as they are.       *)
(***************************************************************************)
FromEarlierGame(i) == moves = 0 \/ ~pending[i].live

RunCallback(i) ==
    IF pending[i].kind = "match" THEN matchCallback(S, i)
    ELSE flipBackCallback(S, i)

C27_EarlierCallbacksAreInert ==
    \A i \in Pending :
        FromEarlierGame(i) =>
            LET t == RunCallback(i)
            IN  /\ t.matchedPairs = matchedPairs
                /\ t.flippedCards = flippedCards
                /\ t.cards = cards
                /\ t.score = score

(***************************************************************************)
(* C28.  At any time at most one match-reveal or flip-back callback is     *)
(* pending, and whenever one is pending flippedCards holds exactly the two *)
(* cards that callback will resolve.                                       *)
(***************************************************************************)
C28_OneCallbackPerFlipCycle ==
    /\ Len(pending) <= 1
    /\ \A i \in Pending :
           /\ pending[i].live
           /\ flippedCards = <<pending[i].c1, pending[i].c2>>

(***************************************************************************)
(* C29.  A flip that is accepted while the game is not active makes it     *)
(* active and records startTime.  moves goes up by exactly 1 with each     *)
(* flip that is accepted as the second face-up card (flippedCards reaches  *)
(* length 2) and is changed by no other flip, tick, pause, resume or       *)
(* callback: a lone first flip and a rejected flip leave it as it is.      *)
(***************************************************************************)
Accepted(t) == Len(t.flippedCards) = Len(flippedCards) + 1

C29_FirstFlipStarts ==
    \A c \in Cards :
        LET t == flipCard(S, c)
        IN  ~gameActive /\ Accepted(t) => t.gameActive /\ t.startTime = now

C29_FlipCountsSecondCard ==
    \A c \in Cards :
        LET t == flipCard(S, c)
        IN  t.moves = IF Accepted(t) /\ Len(t.flippedCards) = 2
                      THEN moves + 1 ELSE moves

C29_OthersKeepMoves ==
    /\ timerTick(S).moves = moves /\ timeLimitTick(S).moves = moves
    /\ pauseGame(S).moves = moves /\ resumeGame(S).moves = moves
    /\ \A i \in Pending : RunCallback(i).moves = moves

Qualifies == Len(leaderboard) < TopN \/ score > leaderboard[Len(leaderboard)]

C30_ExpiryIsSilent ==
    (TimeLimitLive(S) /\ timeLimit <= 1) =>
        LET t == timeLimitTick(S)
        IN  /\ ~t.gameActive /\ ~t.timerInterval /\ ~t.timeLimitInterval
            /\ Count(t.emitted, "complete") = 0
            /\ IF Qualifies
               THEN /\ Count(t.leaderboard, score) = Min(Count(leaderboard, score) + 1, TopN)
                    /\ SortedDescending(t.leaderboard)
                    /\ t.stored = Stringify(t.leaderboard)
               ELSE t.leaderboard = leaderboard /\ t.stored = stored

C30_MatchingSoundsOnce ==
    \A i \in Pending :
        pending[i].kind = "match" =>
            LET t == matchCallback(S, i)
            IN  IF matchedPairs + 1 = pairCount
                THEN ~t.gameActive /\ Count(t.emitted, "complete") = 1
                ELSE Count(t.emitted, "complete") = 0

C30_ExpiryStillRanks == C30_ExpiryIsSilent /\ C30_MatchingSoundsOnce

\* a hard game with one pair matched ran out of time and its score took the
\* last place of the leaderboard
C30_Witness ==
    /\ currentDifficulty = "hard" /\ matchedPairs = 1
    /\ ~gameActive /\ timeLimit = 0 /\ startTime # Null
    /\ score > BeatableScore /\ leaderboard[TopN] = score

(***************************************************************************)
(* C31.  The time updateScore uses at a match is the wall-clock time since *)
(* startTime, paused time included: it is the pause-adjusted time the      *)
(* display would show plus totalPauseTime, and it is never below the time  *)
(* the game was actually played, so a pause never raises the score above   *)
(* what the played time alone would give.                                  *)
(***************************************************************************)
C31_ScoreUsesWallClock ==
    \A i \in Pending :
        pending[i].kind = "match" =>
            LET t       == matchCallback(S, i)
                elapsed == now - startTime
                config  == difficultyConfigs[currentDifficulty]
            IN  /\ elapsed = timerTick(S).timerText + totalPauseTime
                /\ t.score = ScoreOf(matchedPairs + 1, moves, elapsed, config)
                /\ elapsed >= playedTime
                /\ t.score <= ScoreOf(matchedPairs + 1, moves, playedTime, config)

\* a pair was matched in a game that had been paused: the pause cost bonus
C31_Witness ==
    /\ matchedPairs >= 1 /\ startTime # Null /\ totalPauseTime > 0
    /\ score < ScoreOf(matchedPairs, moves, 0, difficultyConfigs[currentDifficulty])
    /\ score > 0

(***************************************************************************)
(* C32.  matchedPairs is half the number of cards of the current deck      *)
(* whose isMatched is true, so matchedPairs equals the pair count exactly  *)
(* when every card of the deck is matched.                                 *)
(***************************************************************************)
MatchedCards == {c \in Cards : cards[c].isMatched}

C32_MatchedPairsCountsCards ==
    /\ 2 * matchedPairs = Cardinality(MatchedCards)
    /\ matchedPairs = pairCount <=> MatchedCards = Cards

(***************************************************************************)
(* C33.  A card of the current deck is face-up and unmatched exactly when  *)
(* it is in flippedCards: every unmatched card outside flippedCards is     *)
(* face-down and can still be flipped, no card is stuck face-up.           *)
(***************************************************************************)
InFlippedCards(c) == \E k \in 1..Len(flippedCards) : flippedCards[k] = c

C33_FaceUpIffInFlippedCards ==
    \A c \in Cards :
        (cards[c].isFlipped /\ ~cards[c].isMatched) <=> InFlippedCards(c)

(***************************************************************************)
(* C34.  A game adds at most one entry to the leaderboard: once endGame    *)
(* has run, nothing short of newGame, resetGame or changeDifficulty makes  *)
(* it run again.  In a game that has ended, a pending callback neither     *)
(* completes the game nor changes the leaderboard, a countdown tick does   *)
(* not expire again, and a click does not start the game again.            *)
(***************************************************************************)
\* endGame has run since the last reset: resetStats clears startTime, and
\* only startGame sets it, together with gameActive
Ended == ~gameActive /\ startTime # Null

C34_OneEndGamePerGame ==
    Ended =>
        /\ \A i \in Pending :
               LET t == RunCallback(i)
               IN  t.leaderboard = leaderboard /\ Count(t.emitted, "complete") = 0
        /\ TimeLimitLive(S) => timeLimit > 1
        /\ \A c \in Cards : ~flipCard(S, c).gameActive

(***************************************************************************)
(* C35.  At most one elapsed-time ticker and at most one countdown ticker  *)
(* are live: startTimer and startTimeLimit never run while the interval    *)
(* whose handle they overwrite is still live, so no interval is left       *)
(* running without a handle.                                               *)
(***************************************************************************)
C35_NoLeakedInterval == leakedTimers = 0 /\ leakedLimits = 0

(***************************************************************************)
(* C36.  Pausing preserves the countdown: pauseGame leaves the remaining   *)
(* seconds as they are, and resumeGame on a paused game leaves them at the *)
(* value they have, which is the value they had when the game was paused.  *)
(***************************************************************************)
C36_PausePreservesCountdown ==
    /\ pauseGame(S).timeLimit = timeLimit
    /\ (gameActive /\ gamePaused) => resumeGame(S).timeLimit = timeLimit

(***************************************************************************)
(* C37.  At every elapsed-time tick the time shown, now - startTime -      *)
(* totalPauseTime, is not negative: totalPauseTime never exceeds the time  *)
(* passed since the startTime in use.                                      *)
(***************************************************************************)
C37_DisplayNotNegative == TimerLive(S) => timerTick(S).timerText >= 0

====
